---- MODULE Spec2Model ----
(***************************************************************************)
(* Model of the DB analyst agent: the session controller                   *)
(* (AIAnalyst.analyze_streaming), the manager graph planner -> executor -> *)
(* synthesizer, the executor's step/attempt loop, the worker graph         *)
(* agent -> tools -> agent, and the SQL tool execute_sql.                  *)
(*                                                                         *)
(* Texts are sequences of string chunks (an f-string is the sequence of    *)
(* its literal parts and its interpolated values).  The content of an      *)
(* event is a sequence of texts: the plan's steps for a plan event, one    *)
(* text for every other event.  A step index of None is NoStep.            *)
(***************************************************************************)
EXTENDS Integers, Sequences, FiniteSets, TLC

VARIABLES
    pc,                  \* position of the run
    user_query,          \* the question given to analyze_streaming
    plan_response,       \* planner_node's local response_text, until its update is consumed
    plan,                \* state["plan"]
    node_trace,          \* manager graph nodes entered, in order
    planner_calls,       \* language-model calls made by planner_node
    synth_calls,         \* language-model calls made by synthesizer_node
    worker_calls,        \* language-model calls made by worker_node, per started step
    db_calls,            \* queries run against the database
    connections,         \* database connections that are open
    sql_result,          \* what the last call of execute_sql returned
    i,                   \* execution_node: index of the current step
    attempt,             \* execution_node: index of the current attempt
    step_success,        \* execution_node local
    step_error_history,  \* execution_node local
    logs,                \* execution_node local
    executed_steps,      \* execution_node local, key step_{k} modelled as k
    accumulated_data,    \* execution_node local, key step_{k}_result modelled as k
    prompt,              \* context and error feedback of the last worker prompt
    messages,            \* worker graph state["messages"], by kind
    tool_call,           \* sql_query argument of the pending tool call
    final_response,      \* synthesizer_node's answer
    exc,                 \* text of the exception travelling to the controller
    raised,              \* an exception reached the controller's except clause
    sent_logs_tracker,   \* analyze_streaming local
    last_log_count,      \* analyze_streaming local
    delivered,           \* events yielded to the consumer, in order
    sqlparse_release,    \* which behaviour of sqlparse is installed
    other                \* the locals of a second call of analyze_streaming, while suspended

vars == <<pc, user_query, plan_response, plan, node_trace, planner_calls,
          synth_calls, worker_calls, db_calls, connections, sql_result, i,
          attempt, step_success, step_error_history, logs, executed_steps, accumulated_data, prompt,
          messages, tool_call, final_response, exc, raised, sent_logs_tracker,
          last_log_count, delivered, sqlparse_release, other>>

----------------------------------------------------------------------------
(* Bounds and program constants *)

MaxPlanLen == 2

MaxRespLen == 6

MAX_RETRIES_PER_STEP == 3

NoStep == -1

None == <<"None">>

----------------------------------------------------------------------------
(* Texts *)

Last(s) == s[Len(s)]

RECURSIVE LStrip(_)
LStrip(t) == IF t # <<>> /\ Head(t) = " " THEN LStrip(Tail(t)) ELSE t

RECURSIVE RStrip(_)
RStrip(t) ==
    IF t # <<>> /\ Last(t) = " " THEN RStrip(SubSeq(t, 1, Len(t) - 1)) ELSE t

\* Variant: the question is tested without strip().
Strip_unstripped(t) == t

\* str.strip() on a text whose whitespace chunks are " "
Strip(t) == RStrip(LStrip(t))

Contains(t, q) ==
    \E k \in 1..(Len(t) - Len(q) + 1) : SubSeq(t, k, k + Len(q) - 1) = q

Questions ==
    { <<>>, <<" ">>, <<" ", " ">>, <<" ", "q", " ">> }

Event(type, step, content) ==
    [type |-> type, step |-> step, content |-> content]

----------------------------------------------------------------------------
(* planner_node *)

\* A plan step the model wrote as a JSON string, and one it wrote as a JSON
\* object (a dict after json.loads, which cannot be hashed).
StepText(k) == << "s" \o ToString(k) >>

StepObject(k) == << "{", "s" \o ToString(k), "}" >>

IsObject(step) == step # <<>> /\ Head(step) = "{"

\* The model's answer to the planning prompt: the call raises, or the text
\* carries (in a code fence or not) no brace-delimited object, one that
\* json.loads rejects, or an object with or without a "plan" key.
PlannerResponse(raises, fenced, body, haskey, steps) ==
    [raises |-> raises, fenced |-> fenced, body |-> body,
     haskey |-> haskey, steps |-> steps]

PlannerResponses(n) ==
    { PlannerResponse(TRUE, FALSE, "none", FALSE, <<>>),
      PlannerResponse(FALSE, FALSE, "none", FALSE, <<>>),
      PlannerResponse(FALSE, FALSE, "object", FALSE, <<>>) }
    \cup { PlannerResponse(FALSE, f, "malformed", FALSE, <<>>) : f \in BOOLEAN }
    \cup { PlannerResponse(FALSE, f, "object", TRUE, [k \in 1..m |-> StepText(k)]) :
             f \in BOOLEAN, m \in 0..n }
    \cup { PlannerResponse(FALSE, FALSE, "object", TRUE, [k \in 1..m |-> StepObject(k)]) :
             m \in 1..n }

NoResponse == PlannerResponse(FALSE, FALSE, "none", FALSE, <<>>)

\* Variant: the fallback step quotes the stripped question.
fallback_plan_stripped(q) ==
    << <<"Kullanicinin sorusunu yanitlamak icin dogrudan bir SQL sorgusu olustur: '">>
       \o Strip(q) \o <<"'">> >>

fallback_plan(q) ==
    << <<"Kullanicinin sorusunu yanitlamak icin dogrudan bir SQL sorgusu olustur: '">>
       \o q \o <<"'">> >>

\* The planner failed: get_response raised, neither regex found an object,
\* json.loads raised, or the plan is missing or empty.
PlannerFails(r) ==
    \/ r.raises
    \/ (~r.fenced /\ r.body = "none")
    \/ r.body = "malformed"
    \/ (IF r.haskey THEN r.steps ELSE <<>>) = <<>>

planner_node(q, r) ==
    IF PlannerFails(r) THEN fallback_plan(q) ELSE r.steps

----------------------------------------------------------------------------
(* execute_sql *)

\* A query text is a sequence of lexemes: words and single non-word
\* characters.  No two words are adjacent, so every word is a whole word.
Lower(w) ==
    CASE w = "SELECT" -> "select"
      [] w = "DROP"   -> "drop"
      [] w = "Drop"   -> "drop"
      [] w = "PRAGMA" -> "pragma"
      [] OTHER        -> w

Blocked ==
    {"drop", "delete", "update", "insert", "alter", "create", "truncate", "replace"}

\* Variant: the pattern is searched without re.IGNORECASE.
HasBlocked_case_sensitive(q) == \E k \in 1..Len(q) : q[k] \in Blocked

\* re.search(r"\b(drop|...)\b", sql_query, flags=re.IGNORECASE)
HasBlocked(q) == \E k \in 1..Len(q) : Lower(q[k]) \in Blocked

\* The first token of a statement that is not whitespace.
RECURSIVE FirstWord(_)
FirstWord(q) ==
    IF q = <<>> THEN ""
    ELSE IF Head(q) = " " THEN FirstWord(Tail(q))
    ELSE Head(q)

\* The lexeme for parentheses nested deeper than the parser accepts.
TooDeep == "(("

\* The lexer reads a quote as the start of a string literal when a later
\* quote closes it, else as a token of its own.
Closing(q, k) ==
    IF \E j \in (k + 1)..Len(q) : q[j] = "'"
    THEN CHOOSE j \in (k + 1)..Len(q) :
             q[j] = "'" /\ \A m \in (k + 1)..(j - 1) : q[m] # "'"
    ELSE 0

\* The positions of a text that are not inside a string literal.
RECURSIVE OutsideFrom(_, _)
OutsideFrom(q, k) ==
    IF k > Len(q) THEN {}
    ELSE IF q[k] = "'" /\ Closing(q, k) # 0 THEN OutsideFrom(q, Closing(q, k) + 1)
    ELSE {k} \cup OutsideFrom(q, k + 1)

\* The positions of the semicolons that end a statement.
Ends(q) == { k \in OutsideFrom(q, 1) : q[k] = ";" }

FirstEnd(q) == CHOOSE k \in Ends(q) : \A j \in Ends(q) : k <= j

\* The statements sqlparse splits a text into: each ends with its
\* semicolon, the last one with the text; whitespace after the last
\* statement starts no statement.
RECURSIVE Split(_)
Split(q) ==
    IF Strip(q) = <<>> THEN <<>>
    ELSE IF Ends(q) = {} THEN <<q>>
    ELSE <<SubSeq(q, 1, FirstEnd(q))>> \o Split(SubSeq(q, FirstEnd(q) + 1, Len(q)))

\* Variant: every statement is taken for a SELECT.
get_type_select(stmt) == "SELECT"

\* sqlparse: Statement.get_type(), the upper-cased first token when it is a
\* DML or DDL keyword, else UNKNOWN
get_type(stmt) ==
    CASE Lower(FirstWord(stmt)) = "select" -> "SELECT"
      [] Lower(FirstWord(stmt)) = "drop"   -> "DROP"
      [] OTHER                             -> "UNKNOWN"

\* For a text of whitespace only the result of sqlparse.parse depends on the
\* installed release: no statement, or one statement of whitespace.
SqlparseReleases == {"drops_blank", "keeps_blank"}

\* What sqlparse.parse(sql_query) does: it raises on a text nested too
\* deeply, else returns the statements.
sqlparse_parse(q, release) ==
    IF \E k \in OutsideFrom(q, 1) : q[k] = TooDeep
    THEN [raises |-> TRUE, error |-> <<"Maximum grouping depth exceeded">>,
          statements |-> <<>>]
    ELSE IF Strip(q) = <<>>
    THEN [raises |-> FALSE, error |-> None,
          statements |-> IF release = "keeps_blank" THEN <<q>> ELSE <<>>]
    ELSE [raises |-> FALSE, error |-> None, statements |-> Split(q)]

SQLToolOutput(success, data, error) ==
    [success |-> success, data |-> data, error |-> error]

\* No call of execute_sql has returned yet.
NoResult == SQLToolOutput(FALSE, <<>>, None)

\* The database's answer to the query of the step at index k: rows, or an
\* exception text.  The sample answers give step k a result of k rows, so
\* that the first step's result is empty and no two steps' results agree.
Rows(k) == [n \in 1..k |-> "row" \o ToString(n)]

DbResults(k) ==
    { [ok |-> TRUE,  rows |-> Rows(k), error |-> None],
      [ok |-> FALSE, rows |-> <<>>, error |-> <<"no such table">>] }

\* sqlite3.connect raises: no connection comes of the call.
ConnectFailure ==
    [ok |-> FALSE, rows |-> <<>>, error |-> <<"unable to open database file">>]

Connects(db) == db # ConnectFailure

EmptyError == <<"Hata: SQL sorgusu bos.">>

SecurityError == <<"Guvenlik ihlali. Sadece SELECT sorgularina izin verilir.">>

\* Variant: a rejection is remembered and given again for the next text.
Validate_remembers(q, parsed) ==
    IF ~sql_result.success /\ sql_result.error \in {EmptyError, SecurityError}
    THEN sql_result.error
    ELSE IF q = <<>> THEN EmptyError
    ELSE IF HasBlocked(q) THEN SecurityError
    ELSE IF parsed.raises
         THEN <<"Hata: SQL ayristirilamadi - ">> \o parsed.error
    ELSE IF parsed.statements = <<>>
         THEN <<"Hata: SQL ayristirilamadi - ", "tuple index out of range">>
    ELSE IF get_type(parsed.statements[1]) # "SELECT"
         THEN <<"Hata: Sadece SELECT sorgularina izin verilir, '",
                get_type(parsed.statements[1]), "' tespit edildi.">>
    ELSE None

\* The checks before the query is executed, parsed being the outcome of
\* sqlparse.parse: the error text of the rejection, or None.  parsed[0] of
\* an empty result raises IndexError inside the try block.
Validate(q, parsed) ==
    IF q = <<>> THEN EmptyError
    ELSE IF HasBlocked(q) THEN SecurityError
    ELSE IF parsed.raises
         THEN <<"Hata: SQL ayristirilamadi - ">> \o parsed.error
    ELSE IF parsed.statements = <<>>
         THEN <<"Hata: SQL ayristirilamadi - ", "tuple index out of range">>
    ELSE IF get_type(parsed.statements[1]) # "SELECT"
         THEN <<"Hata: Sadece SELECT sorgularina izin verilir, '",
                get_type(parsed.statements[1]), "' tespit edildi.">>
    ELSE None

\* Variant: the query is executed whatever the checks say.
Passes_always(q, parsed) == TRUE

Passes(q, parsed) == Validate(q, parsed) = None

\* pd.read_sql_query(sql_query, conn) on the database answering db: the
\* driver compiles the first statement and raises when anything but
\* whitespace follows it.
read_sql_query(q, db) ==
    IF ~db.ok THEN db
    ELSE IF Ends(q) # {} /\ Strip(SubSeq(q, FirstEnd(q) + 1, Len(q))) # <<>>
    THEN [ok |-> FALSE, rows |-> <<>>,
          error |-> <<"You can only execute one statement at a time.">>]
    ELSE db

\* Variant: the exception of the query leaves execute_sql.
OnQueryException_reraised(e) == [raised |-> TRUE, result |-> NoResult]

\* except Exception as e: return SQLToolOutput(success=False, error=str(e))
OnQueryException(e) == [raised |-> FALSE, result |-> SQLToolOutput(FALSE, <<>>, e)]

\* The part of execute_sql after the checks.
Execute(q, db) ==
    IF read_sql_query(q, db).ok
    THEN [raised |-> FALSE,
          result |-> SQLToolOutput(TRUE, read_sql_query(q, db).rows, None)]
    ELSE OnQueryException(read_sql_query(q, db).error)

execute_sql(q, parsed, db) ==
    IF ~Passes(q, parsed) THEN SQLToolOutput(FALSE, <<>>, Validate(q, parsed))
    ELSE Execute(q, db).result

\* with get_db_connection(...) as conn: leaving the block commits or rolls
\* back; the connection stays open until the object is reclaimed.
WithExit(n) == n

\* The queries the model writes for a step.
WorkerQueries ==
    { <<"SELECT", " ", "x">>, <<"DROP", " ", "x">> }

----------------------------------------------------------------------------
(* State *)

\* Variant: writing a key replaces what is stored under every key.
Put_overwrites(m, key, v) == [k \in DOMAIN m \cup {key} |-> v]

Put(m, key, v) == [k \in DOMAIN m \cup {key} |-> IF k = key THEN v ELSE m[k]]

Apology ==
    <<"Maalesef sorgunuzla ilgili veri toplanamadi. Lutfen sorunuzu farkli bir sekilde ifade etmeyi deneyin veya backend loglarini kontrol edin.">>

\* The locals of a call of analyze_streaming that has not started.
NotStarted ==
    [pc |-> "init", user_query |-> <<>>, plan_response |-> NoResponse,
     plan |-> <<>>, node_trace |-> <<>>, planner_calls |-> 0, synth_calls |-> 0,
     worker_calls |-> <<>>, sql_result |-> NoResult, i |-> 0, attempt |-> 0,
     step_success |-> FALSE, step_error_history |-> <<>>, logs |-> <<>>,
     executed_steps |-> <<>>, accumulated_data |-> <<>>,
     prompt |-> [context |-> <<>>, error |-> None], messages |-> <<>>,
     tool_call |-> <<>>, final_response |-> None, exc |-> None, raised |-> FALSE,
     sent_logs_tracker |-> {}, last_log_count |-> 0, delivered |-> <<>>]

\* The texts the worker writes are parsed alike by every release of sqlparse.
Init ==
    /\ sqlparse_release = "drops_blank"
    /\ other = NotStarted
    /\ pc = "init"
    /\ user_query = <<>>
    /\ plan_response = NoResponse
    /\ plan = <<>>
    /\ node_trace = <<>>
    /\ planner_calls = 0
    /\ synth_calls = 0
    /\ worker_calls = <<>>
    /\ db_calls = 0
    /\ connections = 0
    /\ sql_result = NoResult
    /\ i = 0
    /\ attempt = 0
    /\ step_success = FALSE
    /\ step_error_history = <<>>
    /\ logs = <<>>
    /\ executed_steps = <<>>
    /\ accumulated_data = <<>>
    /\ prompt = [context |-> <<>>, error |-> None]
    /\ messages = <<>>
    /\ tool_call = <<>>
    /\ final_response = None
    /\ exc = None
    /\ raised = FALSE
    /\ sent_logs_tracker = {}
    /\ last_log_count = 0
    /\ delivered = <<>>

graph_vars == <<plan_response, plan, node_trace, planner_calls, synth_calls,
                final_response>>

executor_vars == <<worker_calls, db_calls, connections, sql_result, i, attempt, step_success,
                   step_error_history, logs, executed_steps, accumulated_data,
                   prompt, messages, tool_call>>

controller_vars == <<sent_logs_tracker, last_log_count, delivered>>

\* What no step of a call changes: the installed libraries, and the locals
\* of another call.
instance_vars == <<sqlparse_release, other>>

----------------------------------------------------------------------------
(* create_manager_graph: entry point and edges *)

EntryPoint == "planner"

\* Variant: the planner's edge leads past the executor.
ManagerEdge_skip_executor(node) ==
    CASE node = "planner"     -> "synthesizer"
      [] node = "executor"    -> "synthesizer"
      [] node = "synthesizer" -> "END"

\* Variant: the executor's edge leads to END.
ManagerEdge_no_synthesizer(node) ==
    CASE node = "planner"     -> "executor"
      [] node = "executor"    -> "END"
      [] node = "synthesizer" -> "END"

ManagerEdge(node) ==
    CASE node = "planner"     -> "executor"
      [] node = "executor"    -> "synthesizer"
      [] node = "synthesizer" -> "END"

\* Where the run stands once the update of a node has been handled.
After(node) == IF ManagerEdge(node) = "END" THEN "done" ELSE ManagerEdge(node)

\* Variant: no return after the empty-question error event.
EmptyQueryExit_no_return == EntryPoint

\* The return after the empty-question error event.
EmptyQueryExit == "done"

----------------------------------------------------------------------------
(* AIAnalyst.analyze_streaming: entry *)

\* The call with an empty or whitespace-only question: one error event.
RejectEmpty ==
    /\ pc = "init"
    /\ UNCHANGED instance_vars
    /\ \E q \in Questions :
         /\ Strip(q) = <<>>
         /\ user_query' = q
    /\ delivered' = Append(delivered, Event("error", NoStep, <<<<"Soru bos olamaz.">>>>))
    /\ pc' = EmptyQueryExit
    /\ UNCHANGED <<graph_vars, executor_vars, exc, raised, sent_logs_tracker,
                   last_log_count>>

\* The call with a question: the manager graph's stream is started.
StartStream ==
    /\ pc = "init"
    /\ UNCHANGED instance_vars
    /\ \E q \in Questions :
         /\ Strip(q) # <<>>
         /\ user_query' = q
    /\ sent_logs_tracker' = {}
    /\ last_log_count' = 0
    /\ pc' = EntryPoint
    /\ UNCHANGED <<graph_vars, executor_vars, exc, raised, delivered>>

----------------------------------------------------------------------------
(* Manager graph: planner node, and the controller's handling of its update *)

PlannerStep ==
    /\ pc = "planner"
    /\ UNCHANGED instance_vars
    /\ \E r \in PlannerResponses(MaxPlanLen) :
         /\ plan_response' = r
         /\ plan' = planner_node(user_query, r)
    /\ planner_calls' = planner_calls + 1
    /\ node_trace' = Append(node_trace, "planner")
    /\ pc' = "planner_update"
    /\ UNCHANGED <<user_query, synth_calls, final_response, executor_vars, exc,
                   raised, controller_vars>>

\* tuple(plan) is hashed for the set lookup; a dict in it raises TypeError.
Unhashable(p) == \E k \in 1..Len(p) : IsObject(p[k])

\* Variant: the key of an event leaves out its step.
Key_without_step(e) == <<e.type, NoStep, e.content>>

\* The tuple under which a yielded event is remembered:
\* (type, step, content) for a log entry; ("plan", tuple(plan)) and
\* ("final_result", content) are written here with the step None, which
\* no log entry of these two types can collide with.
Key(e) == <<e.type, e.step, e.content>>

\* Variant: the tracker is never consulted.
Tracked_never(tracker, e) == FALSE

\* An event is yielded unless its key is in sent_logs_tracker.
Tracked(tracker, e) == Key(e) \in tracker

Track(tracker, e) == tracker \cup { Key(e) }

OnPlannerUpdate ==
    /\ pc \in {"planner_update", "planner_replay"}
    /\ UNCHANGED instance_vars
    /\ plan_response' = NoResponse
    /\ IF plan = <<>>
       THEN /\ pc' = After("planner")
            /\ UNCHANGED <<exc, sent_logs_tracker, delivered>>
       ELSE IF Unhashable(plan)
       THEN /\ exc' = <<"unhashable type: 'dict'">>
            /\ pc' = "exception"
            /\ UNCHANGED <<sent_logs_tracker, delivered>>
       ELSE LET e == Event("plan", NoStep, plan) IN
            /\ IF Tracked(sent_logs_tracker, e)
               THEN UNCHANGED <<sent_logs_tracker, delivered>>
               ELSE /\ delivered' = Append(delivered, e)
                    /\ sent_logs_tracker' = Track(sent_logs_tracker, e)
            /\ pc' = After("planner")
            /\ UNCHANGED exc
    /\ UNCHANGED <<user_query, plan, node_trace, planner_calls, synth_calls,
                   final_response, executor_vars, raised, last_log_count>>

----------------------------------------------------------------------------
(* Manager graph: executor node (execution_node) and the worker graph *)

\* What the model bound to the tool answers to a worker prompt: a text
\* without tool call, an exception, a tool call whose arguments lack
\* sql_query, or a tool call with a query.
WorkerResponses ==
    { [kind |-> "text", sql_query |-> <<>>],
      [kind |-> "raise", sql_query |-> <<>>],
      [kind |-> "badargs", sql_query |-> <<>>] }
    \cup { [kind |-> "call", sql_query |-> q] : q \in WorkerQueries }

\* Variant: the model is asked again after the tool has run.
CallsModel_always(msgs) == TRUE

\* worker_node returns without calling the model after a ToolMessage.
CallsModel(msgs) == Last(msgs) # "tool"

\* The message worker_node adds to the worker graph's state.
worker_node(msgs, r) ==
    IF ~CallsModel(msgs) THEN "ai_done"
    ELSE IF r.kind = "raise" THEN "ai_error"
    ELSE IF r.kind = "text" THEN "ai_text"
    ELSE "ai_tool_call"

should_continue(msgs) ==
    IF Last(msgs) = "ai_tool_call" THEN "tools" ELSE "END"

ExecutorEnter ==
    /\ pc = "executor"
    /\ UNCHANGED instance_vars
    /\ node_trace' = Append(node_trace, "executor")
    /\ executed_steps' = <<>>
    /\ accumulated_data' = <<>>
    /\ logs' = <<>>
    /\ i' = 0
    /\ pc' = IF plan = <<>> THEN "exec_end" ELSE "step"
    /\ UNCHANGED <<user_query, plan_response, plan, planner_calls, synth_calls,
                   final_response, worker_calls, db_calls, connections,
                   sql_result, attempt, step_success,
                   step_error_history, prompt, messages, tool_call, exc, raised,
                   controller_vars>>

\* Variant: an entry reaches the consumer when the node appends it.
Streamed_live(out, entry) == Append(out, entry)

\* The manager graph's stream gives the node's update when the node has
\* returned: an entry the node appends to its log is not given out then.
Streamed(out, entry) == out

\* Top of the step loop's body.
StepStart ==
    /\ pc = "step"
    /\ UNCHANGED instance_vars
    /\ delivered' = Streamed(delivered, Event("step_start", i, <<plan[i + 1]>>))
    /\ logs' = Append(logs, Event("step_start", i, <<plan[i + 1]>>))
    /\ step_success' = FALSE
    /\ step_error_history' = <<>>
    /\ attempt' = 0
    /\ worker_calls' = Append(worker_calls, 0)
    /\ pc' = "attempt"
    /\ UNCHANGED <<user_query, graph_vars, db_calls, connections, sql_result, i,
                   executed_steps,
                   accumulated_data, prompt, messages, tool_call, exc, raised,
                   sent_logs_tracker, last_log_count>>

StepFailed(k) ==
    Event("error", NoStep, << <<"Step ", ToString(k + 1), " failed. Analysis stopped.">> >>)

\* Variant: the step loop leaves out a step.
NextStep_skips(lg) ==
    /\ logs' = lg
    /\ i' = i + 2
    /\ attempt' = attempt
    /\ pc' = IF i + 2 < Len(plan) THEN "step" ELSE "exec_end"

NextStep(lg) ==
    /\ logs' = lg
    /\ i' = i + 1
    /\ attempt' = attempt
    /\ pc' = IF i + 1 < Len(plan) THEN "step" ELSE "exec_end"

\* Variant: a step that has failed once is failed for good.
EndAttempt_unforgiving(caught, lg) ==
    IF ~caught /\ step_success /\ step_error_history = <<>>
    THEN NextStep(lg)
    ELSE IF attempt + 1 < MAX_RETRIES_PER_STEP /\ ~step_success
    THEN /\ logs' = lg
         /\ i' = i
         /\ attempt' = attempt + 1
         /\ pc' = "attempt"
    ELSE /\ logs' = Append(lg, StepFailed(i))
         /\ i' = i
         /\ attempt' = attempt
         /\ pc' = "exec_end"

\* Variant: the attempt loop is not left on success.
EndAttempt_no_success_break(caught, lg) ==
    IF attempt + 1 < MAX_RETRIES_PER_STEP
    THEN /\ logs' = lg
         /\ i' = i
         /\ attempt' = attempt + 1
         /\ pc' = "attempt"
    ELSE IF step_success
    THEN NextStep(lg)
    ELSE /\ logs' = Append(lg, StepFailed(i))
         /\ i' = i
         /\ attempt' = attempt
         /\ pc' = "exec_end"

\* Variant: the attempt loop gives up one attempt early.
EndAttempt_gives_up(caught, lg) ==
    IF ~caught /\ step_success
    THEN NextStep(lg)
    ELSE IF attempt + 1 < MAX_RETRIES_PER_STEP - 1
    THEN /\ logs' = lg
         /\ i' = i
         /\ attempt' = attempt + 1
         /\ pc' = "attempt"
    ELSE IF step_success
    THEN NextStep(lg)
    ELSE /\ logs' = Append(lg, StepFailed(i))
         /\ i' = i
         /\ attempt' = attempt
         /\ pc' = "exec_end"

\* Variant: the step loop goes on after a failed step.
EndAttempt_no_break(caught, lg) ==
    IF ~caught /\ step_success
    THEN NextStep(lg)
    ELSE IF attempt + 1 < MAX_RETRIES_PER_STEP
    THEN /\ logs' = lg
         /\ i' = i
         /\ attempt' = attempt + 1
         /\ pc' = "attempt"
    ELSE IF step_success
    THEN NextStep(lg)
    ELSE NextStep(Append(lg, StepFailed(i)))

\* Variant: the attempt loop runs one time too many.
EndAttempt_one_more(caught, lg) ==
    IF ~caught /\ step_success
    THEN NextStep(lg)
    ELSE IF attempt + 1 <= MAX_RETRIES_PER_STEP
    THEN /\ logs' = lg
         /\ i' = i
         /\ attempt' = attempt + 1
         /\ pc' = "attempt"
    ELSE IF step_success
    THEN NextStep(lg)
    ELSE /\ logs' = Append(lg, StepFailed(i))
         /\ i' = i
         /\ attempt' = attempt
         /\ pc' = "exec_end"

\* The end of an attempt, lg being the log after it.  The worker graph's
\* stream has ended (break if step_success) or the attempt raised and was
\* caught; then the next attempt, or after the last one the step has failed
\* unless step_success, and the step loop is left.
EndAttempt(caught, lg) ==
    IF ~caught /\ step_success
    THEN NextStep(lg)
    ELSE IF attempt + 1 < MAX_RETRIES_PER_STEP
    THEN /\ logs' = lg
         /\ i' = i
         /\ attempt' = attempt + 1
         /\ pc' = "attempt"
    ELSE IF step_success
    THEN NextStep(lg)
    ELSE /\ logs' = Append(lg, StepFailed(i))
         /\ i' = i
         /\ attempt' = attempt
         /\ pc' = "exec_end"

\* Variant: the query of a tool call is not logged.
OnAgentUpdate_unlogged(m, r) ==
    IF m # "ai_tool_call"
    THEN /\ EndAttempt(FALSE, logs)
         /\ UNCHANGED <<step_error_history, tool_call>>
    ELSE IF r.kind = "badargs"
    THEN LET error_msg == <<"Critical error during step execution: ",
                            "'sql_query'">> IN
         /\ EndAttempt(TRUE, Append(logs, Event("error", i, <<error_msg>>)))
         /\ step_error_history' = Append(step_error_history, error_msg)
         /\ UNCHANGED tool_call
    ELSE /\ logs' = logs
         /\ tool_call' = r.sql_query
         /\ pc' = "tools"
         /\ UNCHANGED <<i, attempt, step_error_history>>

\* Variant: an answer without tool call is recorded as an error of the step.
OnAgentUpdate_records(m, r) ==
    IF m # "ai_tool_call"
    THEN LET error_msg == <<"No tool call.">> IN
         /\ EndAttempt(FALSE, Append(logs, Event("error", i, <<error_msg>>)))
         /\ step_error_history' = Append(step_error_history, error_msg)
         /\ UNCHANGED tool_call
    ELSE IF r.kind = "badargs"
    THEN LET error_msg == <<"Critical error during step execution: ",
                            "'sql_query'">> IN
         /\ EndAttempt(TRUE, Append(logs, Event("error", i, <<error_msg>>)))
         /\ step_error_history' = Append(step_error_history, error_msg)
         /\ UNCHANGED tool_call
    ELSE /\ logs' = Append(logs, Event("sql_query", i, <<r.sql_query>>))
         /\ tool_call' = r.sql_query
         /\ pc' = "tools"
         /\ UNCHANGED <<i, attempt, step_error_history>>

\* Variant: an answer without tool call does not use up an attempt.
OnAgentUpdate_free_retry(m, r) ==
    IF m # "ai_tool_call"
    THEN /\ logs' = logs
         /\ i' = i
         /\ attempt' = attempt
         /\ pc' = "attempt"
         /\ UNCHANGED <<step_error_history, tool_call>>
    ELSE IF r.kind = "badargs"
    THEN LET error_msg == <<"Critical error during step execution: ",
                            "'sql_query'">> IN
         /\ EndAttempt(TRUE, Append(logs, Event("error", i, <<error_msg>>)))
         /\ step_error_history' = Append(step_error_history, error_msg)
         /\ UNCHANGED tool_call
    ELSE /\ logs' = Append(logs, Event("sql_query", i, <<r.sql_query>>))
         /\ tool_call' = r.sql_query
         /\ pc' = "tools"
         /\ UNCHANGED <<i, attempt, step_error_history>>

\* The executor's handling of an agent update whose last message is m,
\* answering response r: a tool call is logged (a missing sql_query argument
\* raises KeyError, caught by the attempt's except clause); without a tool
\* call the worker graph has ended.
OnAgentUpdate(m, r) ==
    IF m # "ai_tool_call"
    THEN /\ EndAttempt(FALSE, logs)
         /\ UNCHANGED <<step_error_history, tool_call>>
    ELSE IF r.kind = "badargs"
    THEN LET error_msg == <<"Critical error during step execution: ",
                            "'sql_query'">> IN
         /\ EndAttempt(TRUE, Append(logs, Event("error", i, <<error_msg>>)))
         /\ step_error_history' = Append(step_error_history, error_msg)
         /\ UNCHANGED tool_call
    ELSE /\ logs' = Append(logs, Event("sql_query", i, <<r.sql_query>>))
         /\ tool_call' = r.sql_query
         /\ pc' = "tools"
         /\ UNCHANGED <<i, attempt, step_error_history>>

\* Variant: the oldest error of the step is fed back.
error_feedback_oldest(history) ==
    IF history = <<>> THEN None ELSE Head(history)

\* error_feedback: step_error_history[-1] if step_error_history, else nothing
error_feedback(history) ==
    IF history = <<>> THEN None ELSE Last(history)

\* One attempt up to the worker graph's first agent update: the prompt is
\* built, the agent node runs, and its update is handled.
AttemptAgent ==
    /\ pc = "attempt"
    /\ UNCHANGED instance_vars
    /\ prompt' = [context |-> accumulated_data,
                  error |-> error_feedback(step_error_history)]
    /\ worker_calls' = IF CallsModel(<<"human">>)
                       THEN [worker_calls EXCEPT ![i + 1] = @ + 1]
                       ELSE worker_calls
    /\ \E r \in WorkerResponses :
         LET m == worker_node(<<"human">>, r) IN
         /\ messages' = <<"human", m>>
         /\ OnAgentUpdate(m, r)
    /\ UNCHANGED <<user_query, graph_vars, db_calls, connections, sql_result,
                   step_success, executed_steps, accumulated_data, exc, raised,
                   controller_vars>>

\* The tools node runs execute_sql; its update is logged.
ToolsStep ==
    /\ pc = "tools"
    /\ UNCHANGED instance_vars
    /\ \E db \in DbResults(i) :
         LET parsed == sqlparse_parse(tool_call, sqlparse_release)
             result_data == execute_sql(tool_call, parsed, db) IN
         /\ db_calls' = IF Passes(tool_call, parsed) /\ Connects(db)
                        THEN db_calls + 1 ELSE db_calls
         /\ connections' = IF Passes(tool_call, parsed) /\ Connects(db)
                           THEN WithExit(connections + 1) ELSE connections
         /\ sql_result' = result_data
         /\ IF result_data.success
            THEN /\ logs' = Append(logs, Event("tool_result", i,
                       << <<"Success, ", ToString(Len(result_data.data)), " rows found.">> >>))
                 /\ step_success' = TRUE
                 /\ executed_steps' = Put(executed_steps, i + 1,
                       [description |-> plan[i + 1], data |-> result_data.data])
                 /\ accumulated_data' = Put(accumulated_data, i + 1, result_data.data)
                 /\ UNCHANGED step_error_history
            ELSE /\ logs' = Append(logs, Event("tool_error", i, <<result_data.error>>))
                 /\ step_error_history' = Append(step_error_history, result_data.error)
                 /\ UNCHANGED <<step_success, executed_steps, accumulated_data>>
    /\ messages' = Append(messages, "tool")
    /\ pc' = "agent"
    /\ UNCHANGED <<user_query, graph_vars, worker_calls, i, attempt, prompt,
                   tool_call, exc, raised, controller_vars>>

\* The agent node after the tools node: worker_node returns without a
\* model call when the last message is a ToolMessage, and the graph ends.
AgentAfterTool ==
    /\ pc = "agent"
    /\ UNCHANGED instance_vars
    /\ worker_calls' = IF CallsModel(messages)
                       THEN [worker_calls EXCEPT ![i + 1] = @ + 1]
                       ELSE worker_calls
    /\ \E r \in WorkerResponses :
         LET m == worker_node(messages, r) IN
         /\ messages' = Append(messages, m)
         /\ OnAgentUpdate(m, r)
    /\ UNCHANGED <<user_query, graph_vars, db_calls, connections, sql_result,
                   step_success, executed_steps, accumulated_data, prompt, exc,
                   raised, controller_vars>>

\* Variant: no hand-off entry after a step that exhausted its attempts.
AfterLoop_completed_only(lg) ==
    IF lg # <<>> /\ Last(lg).type = "error" /\ Last(lg).step = NoStep THEN lg
    ELSE Append(lg, Event("info", NoStep, << <<"Synthesizing final results...">> >>))

\* logs.append({"type": "info", ...}) after the step loop, however it ended.
AfterLoop(lg) ==
    Append(lg, Event("info", NoStep, << <<"Synthesizing final results...">> >>))

\* After the step loop.
ExecutorReturn ==
    /\ pc = "exec_end"
    /\ UNCHANGED instance_vars
    /\ logs' = AfterLoop(logs)
    /\ pc' = "executor_update"
    /\ UNCHANGED <<user_query, graph_vars, worker_calls, db_calls, connections,
                   sql_result, i, attempt, step_success, step_error_history, executed_steps,
                   accumulated_data, prompt, messages, tool_call, exc, raised,
                   controller_vars>>

----------------------------------------------------------------------------
(* The controller's handling of the executor's update *)

\* Variant: the membership test of the loop over new_logs is inverted.
RECURSIVE Forward_inverted(_, _, _)
Forward_inverted(new_logs, tracker, out) ==
    IF new_logs = <<>> THEN [tracker |-> tracker, out |-> out]
    ELSE LET log_entry == Head(new_logs) IN
         IF ~Tracked(tracker, log_entry)
         THEN Forward_inverted(Tail(new_logs), tracker, out)
         ELSE Forward_inverted(Tail(new_logs), Track(tracker, log_entry),
                               Append(out, log_entry))

\* The loop over new_logs: an entry is yielded unless its key
\* (type, step, content) is in the tracker.
RECURSIVE Forward(_, _, _)
Forward(new_logs, tracker, out) ==
    IF new_logs = <<>> THEN [tracker |-> tracker, out |-> out]
    ELSE LET log_entry == Head(new_logs) IN
         IF Tracked(tracker, log_entry)
         THEN Forward(Tail(new_logs), tracker, out)
         ELSE Forward(Tail(new_logs), Track(tracker, log_entry), Append(out, log_entry))

OnExecutorUpdate ==
    /\ pc = "executor_update"
    /\ UNCHANGED instance_vars
    /\ LET all_logs == logs
           new_logs == SubSeq(all_logs, last_log_count + 1, Len(all_logs))
           f == Forward(new_logs, sent_logs_tracker, delivered)
       IN /\ last_log_count' = Len(all_logs)
          /\ sent_logs_tracker' = f.tracker
          /\ delivered' = f.out
    /\ pc' = After("executor")
    /\ UNCHANGED <<user_query, graph_vars, executor_vars, exc, raised>>

----------------------------------------------------------------------------
(* Manager graph: synthesizer node, and the end of the stream *)

\* get_response on the synthesis prompt: an answer, or an exception.
SynthResponses ==
    { [raises |-> FALSE, text |-> <<"answer">>],
      [raises |-> TRUE, text |-> <<"model error">>] }

\* Variant: the model is called whatever the steps have given.
NoneExecuted_never(steps) == FALSE

\* if not executed_steps
NoneExecuted(steps) == DOMAIN steps = {}

\* Variant: the synthesizer is run again when its model call raised.
SynthesisRaised_rerun == "synthesizer"

\* get_response is called outside any try block: its exception leaves the
\* node and the manager graph's stream.
SynthesisRaised == "exception"

SynthesizerStep ==
    /\ pc = "synthesizer"
    /\ UNCHANGED instance_vars
    /\ node_trace' = Append(node_trace, "synthesizer")
    /\ IF NoneExecuted(executed_steps)
       THEN /\ final_response' = Apology
            /\ pc' = "synthesizer_update"
            /\ UNCHANGED <<synth_calls, exc>>
       ELSE \E r \in SynthResponses :
            /\ synth_calls' = synth_calls + 1
            /\ IF r.raises
               THEN /\ exc' = r.text
                    /\ pc' = SynthesisRaised
                    /\ UNCHANGED final_response
               ELSE /\ final_response' = r.text
                    /\ pc' = "synthesizer_update"
                    /\ UNCHANGED exc
    /\ UNCHANGED <<user_query, plan_response, plan, planner_calls, executor_vars,
                   raised, controller_vars>>

OnSynthesizerUpdate ==
    /\ pc = "synthesizer_update"
    /\ UNCHANGED instance_vars
    /\ LET e == Event("final_result", NoStep, <<final_response>>) IN
       IF Tracked(sent_logs_tracker, e)
       THEN UNCHANGED <<sent_logs_tracker, delivered>>
       ELSE /\ delivered' = Append(delivered, e)
            /\ sent_logs_tracker' = Track(sent_logs_tracker, e)
    /\ pc' = After("synthesizer")
    /\ UNCHANGED <<user_query, graph_vars, executor_vars, exc, raised,
                   last_log_count>>

CriticalPrefix == "Analiz akisi sirasinda kritik bir hata olustu: "

\* except Exception as e: one error event, and the generator ends.
OnException ==
    /\ pc = "exception"
    /\ UNCHANGED instance_vars
    /\ delivered' = Append(delivered, Event("error", NoStep,
           << <<CriticalPrefix>> \o exc >>))
    /\ raised' = TRUE
    /\ pc' = "done"
    /\ UNCHANGED <<user_query, graph_vars, executor_vars, exc, sent_logs_tracker,
                   last_log_count>>

----------------------------------------------------------------------------
(* Specifications *)

Next ==
    \/ RejectEmpty
    \/ StartStream
    \/ PlannerStep
    \/ OnPlannerUpdate
    \/ ExecutorEnter
    \/ StepStart
    \/ AttemptAgent
    \/ ToolsStep
    \/ AgentAfterTool
    \/ ExecutorReturn
    \/ OnExecutorUpdate
    \/ SynthesizerStep
    \/ OnSynthesizerUpdate
    \/ OnException

Spec == Init /\ [][Next]_vars

\* Every language-model call and every database call returns, and the
\* generator is consumed to its end.
FairSpec == Spec /\ WF_vars(Next)

\* The stream of the manager graph hands the planner's update to the
\* controller a second time before the executor runs (an upstream replay).
ReplayPlannerUpdate ==
    /\ pc = After("planner")
    /\ UNCHANGED instance_vars
    /\ pc # "done"
    /\ last_log_count = 0
    /\ node_trace = <<"planner">>
    /\ pc' = "planner_replay"
    /\ UNCHANGED <<user_query, graph_vars, executor_vars, exc, raised,
                   controller_vars>>

NextReplay == Next \/ ReplayPlannerUpdate

SpecReplay == Init /\ [][NextReplay]_vars

\* planner_node as a function of the question and of the model's answer.
InitPlanner ==
    /\ sqlparse_release = "drops_blank"
    /\ other = NotStarted
    /\ pc = "planner_fn"
    /\ user_query \in Questions
    /\ plan_response \in PlannerResponses(MaxRespLen)
    /\ plan = <<>>
    /\ node_trace = <<>>
    /\ planner_calls = 0
    /\ synth_calls = 0
    /\ worker_calls = <<>>
    /\ db_calls = 0
    /\ connections = 0
    /\ sql_result = NoResult
    /\ i = 0
    /\ attempt = 0
    /\ step_success = FALSE
    /\ step_error_history = <<>>
    /\ logs = <<>>
    /\ executed_steps = <<>>
    /\ accumulated_data = <<>>
    /\ prompt = [context |-> <<>>, error |-> None]
    /\ messages = <<>>
    /\ tool_call = <<>>
    /\ final_response = None
    /\ exc = None
    /\ raised = FALSE
    /\ sent_logs_tracker = {}
    /\ last_log_count = 0
    /\ delivered = <<>>

PlannerApply ==
    /\ pc = "planner_fn"
    /\ UNCHANGED instance_vars
    /\ plan' = planner_node(user_query, plan_response)
    /\ planner_calls' = planner_calls + 1
    /\ pc' = "planner_fn_done"
    /\ UNCHANGED <<user_query, plan_response, node_trace, synth_calls,
                   final_response, executor_vars, exc, raised, controller_vars>>

SpecPlanner == InitPlanner /\ [][PlannerApply]_vars

\* execute_sql as a function of the query text.
MaxSqlLen == 3

SqlWords == {"SELECT", "Drop", "dropped", "PRAGMA"}

SqlMarks == {" ", ";", "'", TooDeep}

\* The texts of at most n lexemes in which no two words are adjacent.
SqlTexts(n) ==
    UNION { { q \in [1..m -> SqlWords \cup SqlMarks] :
                \A k \in 1..(m - 1) : ~(q[k] \in SqlWords /\ q[k + 1] \in SqlWords) } :
            m \in 0..n }

InitSql ==
    /\ sqlparse_release \in SqlparseReleases
    /\ other = NotStarted
    /\ pc = "sql_fn"
    /\ tool_call \in SqlTexts(MaxSqlLen)
    /\ user_query = <<>>
    /\ plan_response = NoResponse
    /\ plan = <<>>
    /\ node_trace = <<>>
    /\ planner_calls = 0
    /\ synth_calls = 0
    /\ worker_calls = <<>>
    /\ db_calls = 0
    /\ connections = 0
    /\ sql_result = NoResult
    /\ i = 0
    /\ attempt = 0
    /\ step_success = FALSE
    /\ step_error_history = <<>>
    /\ logs = <<>>
    /\ executed_steps = <<>>
    /\ accumulated_data = <<>>
    /\ prompt = [context |-> <<>>, error |-> None]
    /\ messages = <<>>
    /\ final_response = None
    /\ exc = None
    /\ raised = FALSE
    /\ sent_logs_tracker = {}
    /\ last_log_count = 0
    /\ delivered = <<>>

\* execute_sql up to the end of the security and syntax check: a rejected
\* query is answered here.
SqlCheck ==
    /\ pc = "sql_fn"
    /\ UNCHANGED instance_vars
    /\ LET parsed == sqlparse_parse(tool_call, sqlparse_release) IN
         IF Passes(tool_call, parsed)
         THEN /\ pc' = "sql_exec"
              /\ UNCHANGED sql_result
         ELSE /\ pc' = "sql_fn_done"
              /\ sql_result' = SQLToolOutput(FALSE, <<>>, Validate(tool_call, parsed))
    /\ UNCHANGED <<user_query, graph_vars, worker_calls, db_calls, connections, i,
                   attempt, step_success, step_error_history, logs,
                   executed_steps, accumulated_data, prompt, messages, tool_call,
                   exc, raised, controller_vars>>

\* What the database does with a query: rows, an exception of the query, or
\* an exception of sqlite3.connect.
SqlOutcomes == DbResults(0) \cup DbResults(1) \cup {ConnectFailure}

\* execute_sql from the with block to its return.
SqlExecute ==
    /\ pc = "sql_exec"
    /\ UNCHANGED instance_vars
    /\ \E db \in SqlOutcomes :
         /\ db_calls' = IF Connects(db) THEN db_calls + 1 ELSE db_calls
         /\ connections' = IF Connects(db) THEN WithExit(connections + 1)
                           ELSE connections
         /\ sql_result' = Execute(tool_call, db).result
         /\ exc' = IF Execute(tool_call, db).raised
                   THEN read_sql_query(tool_call, db).error ELSE exc
    /\ pc' = "sql_fn_done"
    /\ UNCHANGED <<user_query, graph_vars, worker_calls, i, attempt, step_success,
                   step_error_history, logs, executed_steps, accumulated_data,
                   prompt, messages, tool_call, raised, controller_vars>>

\* The interpreter reclaims the connection object after the call has
\* returned, which closes the connection.
Reclaim ==
    /\ pc = "sql_fn_done"
    /\ UNCHANGED instance_vars
    /\ connections > 0
    /\ connections' = connections - 1
    /\ UNCHANGED <<pc, user_query, graph_vars, worker_calls, db_calls, sql_result,
                   i, attempt, step_success, step_error_history, logs,
                   executed_steps, accumulated_data, prompt, messages, tool_call,
                   exc, raised, controller_vars>>

NextSql == SqlCheck \/ SqlExecute \/ Reclaim

SpecSql == InitSql /\ [][NextSql]_vars

\* Two calls of analyze_streaming on one AIAnalyst, interleaved. The locals of
\* the call that is not running are kept in other; the database and the
\* installed parser are the only things the two calls have in common.
MaxTwoRunPlanLen == 1

\* The locals of the running call.
Locals ==
    [pc |-> pc, user_query |-> user_query, plan_response |-> plan_response,
     plan |-> plan, node_trace |-> node_trace, planner_calls |-> planner_calls,
     synth_calls |-> synth_calls, worker_calls |-> worker_calls,
     sql_result |-> sql_result, i |-> i, attempt |-> attempt,
     step_success |-> step_success, step_error_history |-> step_error_history,
     logs |-> logs, executed_steps |-> executed_steps,
     accumulated_data |-> accumulated_data, prompt |-> prompt,
     messages |-> messages, tool_call |-> tool_call,
     final_response |-> final_response, exc |-> exc, raised |-> raised,
     sent_logs_tracker |-> sent_logs_tracker, last_log_count |-> last_log_count,
     delivered |-> delivered]

\* Variant: the set of sent keys is an attribute of the AIAnalyst, one set
\* for every call.
Resumed_shared(mine, theirs) == mine

\* sent_logs_tracker = set() is a local of the call: the call that resumes
\* finds its own set.
Resumed(mine, theirs) == theirs

\* The running call is suspended and the other call runs.
Switch ==
    /\ other' = Locals
    /\ pc' = other.pc
    /\ user_query' = other.user_query
    /\ plan_response' = other.plan_response
    /\ plan' = other.plan
    /\ node_trace' = other.node_trace
    /\ planner_calls' = other.planner_calls
    /\ synth_calls' = other.synth_calls
    /\ worker_calls' = other.worker_calls
    /\ sql_result' = other.sql_result
    /\ i' = other.i
    /\ attempt' = other.attempt
    /\ step_success' = other.step_success
    /\ step_error_history' = other.step_error_history
    /\ logs' = other.logs
    /\ executed_steps' = other.executed_steps
    /\ accumulated_data' = other.accumulated_data
    /\ prompt' = other.prompt
    /\ messages' = other.messages
    /\ tool_call' = other.tool_call
    /\ final_response' = other.final_response
    /\ exc' = other.exc
    /\ raised' = other.raised
    /\ sent_logs_tracker' = Resumed(sent_logs_tracker, other.sent_logs_tracker)
    /\ last_log_count' = other.last_log_count
    /\ delivered' = other.delivered
    /\ UNCHANGED <<db_calls, connections, sqlparse_release>>

NextTwoRuns ==
    \/ Next /\ Len(plan') <= MaxTwoRunPlanLen
    \/ Switch

SpecTwoRuns == Init /\ [][NextTwoRuns]_vars

\* execute_sql called again, as the next attempt of a step does, with the
\* same or another text.
MaxSqlCalls == 2
MaxRepeatLen == 2

SqlCall ==
    /\ pc = "sql_fn_done"
    /\ UNCHANGED instance_vars
    /\ attempt + 1 < MaxSqlCalls
    /\ attempt' = attempt + 1
    /\ tool_call' \in SqlTexts(MaxRepeatLen)
    /\ pc' = "sql_fn"
    /\ UNCHANGED <<user_query, graph_vars, worker_calls, db_calls, connections,
                   sql_result, i, step_success, step_error_history, logs,
                   executed_steps, accumulated_data, prompt, messages, exc, raised,
                   controller_vars>>

NextSqlRepeat == NextSql \/ SqlCall

SpecSqlRepeat == InitSql /\ [][NextSqlRepeat]_vars

----------------------------------------------------------------------------
(* Properties *)

IsBlank(t) == \A k \in 1..Len(t) : t[k] = " "

Types(events) == [k \in 1..Len(events) |-> events[k].type]

Count(events, type) == Cardinality({k \in 1..Len(events) : events[k].type = type})

\* The error event of the except clause, and any error event the controller
\* itself produces.
IsCriticalError(e) ==
    e.type = "error" /\ e.step = NoStep /\ Head(e.content[1]) = CriticalPrefix

IsControllerError(e) ==
    IsCriticalError(e) \/ e = Event("error", NoStep, <<<<"Soru bos olamaz.">>>>)

IsOrchestratorEvent(e) ==
    \/ e.type \in {"step_start", "sql_query", "tool_result", "tool_error", "info"}
    \/ (e.type = "error" /\ ~IsControllerError(e))

Orchestrated(events) == SelectSeq(events, IsOrchestratorEvent)

IsPrefix(a, b) == Len(a) <= Len(b) /\ a = SubSeq(b, 1, Len(a))

ManagerOrder == <<"planner", "executor", "synthesizer">>

\* The controller has handled the executor's update.
ExecutorForwarded == logs # <<>> /\ last_log_count = Len(logs)

\* C1: for an empty or whitespace-only question the run delivers exactly one
\* event, of kind error, and enters no node of the manager graph and calls
\* neither the language model nor the database.
C1_EmptyQuestion ==
    (pc # "init" /\ IsBlank(user_query)) =>
        /\ pc = "done"
        /\ Len(delivered) = 1
        /\ delivered[1].type = "error"
        /\ node_trace = <<>>
        /\ planner_calls = 0 /\ synth_calls = 0
        /\ worker_calls = <<>> /\ db_calls = 0

C1_Witness ==
    pc = "done" /\ user_query = <<" ", " ">> /\ Len(delivered) = 1

\* C2: the nodes run in the order planner, executor, synthesizer; every
\* orchestrator event is delivered after a plan event and before any
\* final_result event; a run on a non-empty question that raised no exception
\* has run all three nodes and delivered exactly one plan event, first, and
\* exactly one final_result event, last.
C2_PipelineOrder ==
    /\ IsPrefix(node_trace, ManagerOrder)
    /\ Count(delivered, "plan") <= 1
    /\ Count(delivered, "final_result") <= 1
    /\ \A k \in 1..Len(delivered) :
         IsOrchestratorEvent(delivered[k]) =>
            /\ \E j \in 1..(k - 1) : delivered[j].type = "plan"
            /\ \A j \in 1..(k - 1) : delivered[j].type # "final_result"
    /\ (pc = "done" /\ ~IsBlank(user_query) /\ ~raised) =>
            /\ node_trace = ManagerOrder
            /\ Count(delivered, "plan") = 1
            /\ Count(delivered, "final_result") = 1
            /\ delivered[1].type = "plan"
            /\ Last(delivered).type = "final_result"
            /\ \A k \in 2..(Len(delivered) - 1) : IsOrchestratorEvent(delivered[k])

C2_Witness ==
    /\ pc = "done" /\ ~raised /\ Len(plan) = 2
    /\ Len(delivered) > 4
    /\ Last(delivered).type = "final_result"

\* C3: the delivered stream of a finished run ends with a final_result or an
\* error event; an exception that reached the controller has become exactly
\* one error event of the except clause, the last event of the stream.
C3_StreamEnd ==
    /\ pc = "done" =>
         /\ delivered # <<>>
         /\ Last(delivered).type \in {"final_result", "error"}
         /\ (exc # None) = raised
    /\ raised =>
         /\ pc = "done"
         /\ IsCriticalError(Last(delivered))
         /\ Cardinality({k \in 1..Len(delivered) : IsCriticalError(delivered[k])}) = 1
    /\ ~raised => \A k \in 1..Len(delivered) : ~IsCriticalError(delivered[k])

C3_Witness ==
    /\ pc = "done" /\ raised /\ synth_calls = 1
    /\ Len(delivered) > 3
    /\ Count(delivered, "final_result") = 0

\* C4 as stated: no event is delivered after an error event or after a
\* final_result event.
C4_Original ==
    \A k \in 1..(Len(delivered) - 1) :
        delivered[k].type \notin {"error", "final_result"}

\* C4 as amended: no event is delivered after a final_result event or after
\* an error event of the controller itself (empty question, except clause);
\* an error event of the orchestrator is never the last event of a finished
\* run.
C4_Amended ==
    /\ \A k \in 1..(Len(delivered) - 1) :
         delivered[k].type # "final_result" /\ ~IsControllerError(delivered[k])
    /\ pc = "done" =>
         ~(Last(delivered).type = "error" /\ IsOrchestratorEvent(Last(delivered)))

C4_Witness ==
    /\ pc = "done"
    /\ \E k \in 1..(Len(delivered) - 1) : delivered[k].type = "error"
    /\ Last(delivered).type = "final_result"

\* C5: no two delivered events of a run have the same kind, step index and
\* content, and at most one plan event is delivered, also when the planner's
\* update reaches the controller twice.
C5_NoDuplicates ==
    /\ \A j, k \in 1..Len(delivered) : j < k => delivered[j] # delivered[k]
    /\ Count(delivered, "plan") <= 1

C5_Witness ==
    /\ pc = "done"
    /\ \E j, k \in 1..Len(logs) : j < k /\ logs[j] = logs[k]
    /\ Count(delivered, "plan") = 1

\* The entries of a log without those equal to an earlier entry.
RECURSIVE KeepFirstFrom(_, _)
KeepFirstFrom(s, k) ==
    IF k > Len(s) THEN <<>>
    ELSE (IF \E j \in 1..(k - 1) : s[j] = s[k] THEN <<>> ELSE <<s[k]>>)
         \o KeepFirstFrom(s, k + 1)

KeepFirst(s) == KeepFirstFrom(s, 1)

\* C6 as stated: every event of the orchestrator's log is delivered, in the
\* log's order.
C6_Original ==
    ExecutorForwarded => Orchestrated(delivered) = logs

\* C6 as amended: the orchestrator events delivered are the entries of the
\* orchestrator's log in the log's order, except the entries equal in type,
\* step and content to an earlier entry; none is delivered before the
\* executor's update is handled.
C6_Amended ==
    /\ ExecutorForwarded => Orchestrated(delivered) = KeepFirst(logs)
    /\ ~ExecutorForwarded => Orchestrated(delivered) = <<>>

C6_Witness ==
    /\ pc = "done"
    /\ ExecutorForwarded
    /\ KeepFirst(logs) # logs
    /\ \E j, k \in 1..Len(logs) :
         logs[j].step # logs[k].step /\ logs[j].type = "sql_query"
         /\ logs[k].type = "sql_query" /\ logs[j].content = logs[k].content

\* A single-step plan whose first attempt succeeded.
FirstAttemptSucceeds ==
    Len(plan) = 1 /\ worker_calls = <<1>> /\ DOMAIN executed_steps = {1}

HappyPath ==
    <<"plan", "step_start", "sql_query", "tool_result", "info", "final_result">>

C8_Terminates ==
    /\ <>(pc = "done")
    /\ [](pc = "done" => delivered # <<>>)
    /\ [](/\ planner_calls <= 1
          /\ synth_calls <= 1
          /\ Len(worker_calls) <= Len(plan)
          /\ \A k \in 1..Len(worker_calls) : worker_calls[k] <= MAX_RETRIES_PER_STEP)

C8_Witness ==
    /\ pc = "done"
    /\ planner_calls = 1 /\ synth_calls = 1
    /\ worker_calls = <<MAX_RETRIES_PER_STEP, MAX_RETRIES_PER_STEP>>

PLAN_MAX_STEPS == 5

\* C9: the plan returned by the planner has between 1 and 5 steps.
C9_PlanLength ==
    pc = "planner_fn_done" => Len(plan) \in 1..PLAN_MAX_STEPS

\* The failures C10 names: the model call fails, no JSON object is found,
\* the JSON is malformed, the plan array is empty or missing.
PlanningFailure(r) ==
    \/ r.raises
    \/ r.body = "none"
    \/ r.body = "malformed"
    \/ (r.body = "object" /\ (~r.haskey \/ r.steps = <<>>))

----------------------------------------------------------------------------
(* Properties of execute_sql *)

\* The text has a blocked keyword as a whole word, in any letter case.
ContainsBlockedWord(q) == \E k \in 1..Len(q) : Lower(q[k]) \in Blocked

\* The text makes the parser raise.
ParseRaises(q) == \E k \in OutsideFrom(q, 1) : q[k] = TooDeep

TypeErrorPrefix == "Hata: Sadece SELECT sorgularina izin verilir, '"

ParseErrorPrefix == "Hata: SQL ayristirilamadi - "

\* The call has returned.
SqlReturned == pc = "sql_fn_done"

\* The query was answered by the checks, not by the database.
RejectedByChecks ==
    /\ ~sql_result.success
    /\ \/ sql_result.error \in {EmptyError, SecurityError}
       \/ Head(sql_result.error) \in {TypeErrorPrefix, ParseErrorPrefix}

\* C11: a query text with a blocked keyword as a whole word, in any letter
\* case and at any position, also inside a string literal, is rejected with
\* the security reason and never reaches the database.
C11_BlockedKeyword ==
    ContainsBlockedWord(tool_call) =>
        /\ pc # "sql_exec"
        /\ db_calls = 0 /\ connections = 0
        /\ SqlReturned => sql_result = SQLToolOutput(FALSE, <<>>, SecurityError)

C11_Witness ==
    /\ SqlReturned
    /\ tool_call = <<"'", "Drop", "'">>
    /\ sql_result.error = SecurityError

\* C12: a query text without blocked keyword that the parser splits into
\* statements the first of which is not a SELECT is rejected with the type
\* reason and never reaches the database.
C12_TypeCheck ==
    (/\ ~ContainsBlockedWord(tool_call)
     /\ ~ParseRaises(tool_call)
     /\ ~IsBlank(tool_call)
     /\ Lower(FirstWord(tool_call)) # "select") =>
        /\ pc # "sql_exec"
        /\ db_calls = 0 /\ connections = 0
        /\ SqlReturned =>
             /\ ~sql_result.success
             /\ sql_result.error = <<TypeErrorPrefix, "UNKNOWN", "' tespit edildi.">>

C12_Witness ==
    /\ SqlReturned
    /\ tool_call = <<"PRAGMA", " ", "dropped">>
    /\ ~sql_result.success
    /\ Head(sql_result.error) = TypeErrorPrefix

\* C13: a query text that the parser does not split into exactly one
\* statement is rejected by the checks and is not passed to the database.
C13_SingleStatement ==
    (SqlReturned /\ ~ParseRaises(tool_call) /\ Len(Split(tool_call)) # 1) =>
        /\ RejectedByChecks
        /\ db_calls = 0

\* C14: an empty or whitespace-only query text is rejected with the empty
\* reason and never reaches the database.
C14_EmptyReason ==
    (SqlReturned /\ IsBlank(tool_call)) =>
        /\ sql_result = SQLToolOutput(FALSE, <<>>, EmptyError)
        /\ db_calls = 0

\* The text passes the empty check, the keyword check and the type check.
PassesAllChecks(q) ==
    /\ q # <<>>
    /\ ~ContainsBlockedWord(q)
    /\ ~ParseRaises(q)
    /\ Lower(FirstWord(q)) = "select"

\* C15: a connection is opened and a query is run only once the checks are
\* over, and only for a text that passed the empty check, the keyword check
\* and the type check; a rejected query opens no connection and runs nothing.
C15_ValidateBeforeExecute ==
    /\ []((pc = "sql_exec" \/ db_calls > 0 \/ connections > 0) =>
            PassesAllChecks(tool_call))
    /\ []((SqlReturned /\ RejectedByChecks) => (db_calls = 0 /\ connections = 0))
    /\ [][(db_calls' # db_calls \/ connections' > connections) =>
            pc = "sql_exec"]_vars

C15_Witness ==
    /\ SqlReturned
    /\ tool_call = <<"SELECT">>
    /\ db_calls = 1
    /\ sql_result.success

\* C16: execute_sql returns a result whatever happens: success with no error
\* text, or failure with an error text; no exception of the parser, of the
\* connection or of the query leaves it.
C16_NeverRaises ==
    /\ pc \in {"sql_fn", "sql_exec", "sql_fn_done"}
    /\ exc = None
    /\ SqlReturned =>
         /\ sql_result # NoResult
         /\ sql_result.success => sql_result.error = None
         /\ ~sql_result.success =>
              (sql_result.error # None /\ sql_result.error # <<>>
               /\ sql_result.data = <<>>)

C16_Witness ==
    /\ SqlReturned
    /\ db_calls = 1
    /\ ~sql_result.success
    /\ sql_result.error = <<"no such table">>

\* C17: when execute_sql has returned, no connection it opened is open.
C17_ConnectionsReleased ==
    SqlReturned => connections = 0

----------------------------------------------------------------------------
(* Properties of execution_node's retry loop *)

\* The error event that names the step at index k as failed.
NamesStep(e, k) ==
    /\ e.type = "error"
    /\ e.content = << <<"Step ", ToString(k + 1), " failed. Analysis stopped.">> >>

ExhaustionsIn(events, k) ==
    Cardinality({ j \in 1..Len(events) : NamesStep(events[j], k) })

StepIndexes == 0..(Len(plan) - 1)

\* The step at index k was started, and its attempts are over.
Started(k) == k + 1 <= Len(worker_calls)

Finished(k) ==
    Started(k) /\ (k + 1 < Len(worker_calls) \/ pc \notin {"attempt", "tools", "agent"})

\* Every attempt of the step at index k has failed.
Exhausted(k) == Finished(k) /\ (k + 1) \notin DOMAIN executed_steps

\* C18: a step whose every attempt failed has had exactly
\* MAX_RETRIES_PER_STEP attempts, each with one model call; exactly one error
\* event naming it is logged and, once the executor's update is handled,
\* delivered; after that event no model call and no query follows for it.
C18_RetryBound ==
    /\ [](\A k \in StepIndexes :
            /\ Started(k) => worker_calls[k + 1] <= MAX_RETRIES_PER_STEP
            /\ Exhausted(k) =>
                 /\ worker_calls[k + 1] = MAX_RETRIES_PER_STEP
                 /\ i = k /\ attempt = MAX_RETRIES_PER_STEP - 1
                 /\ ExhaustionsIn(logs, k) = 1
                 /\ ExecutorForwarded => ExhaustionsIn(delivered, k) = 1
            /\ ExhaustionsIn(logs, k) > 0 => Exhausted(k))
    /\ [][(\E k \in StepIndexes : ExhaustionsIn(logs, k) > 0) =>
            (worker_calls' = worker_calls /\ db_calls' = db_calls)]_vars

C18_Witness ==
    /\ pc = "done"
    /\ worker_calls = <<1, MAX_RETRIES_PER_STEP>>
    /\ ExhaustionsIn(delivered, 1) = 1

\* C19: once the step at index k has exhausted its retries, no later step is
\* started: no worker call is made for one, no result is stored for one, and
\* no logged or delivered event carries a step index greater than k.
C19_ShortCircuit ==
    \A k \in StepIndexes :
        ExhaustionsIn(logs, k) > 0 =>
            /\ Len(worker_calls) = k + 1
            /\ i = k
            /\ DOMAIN executed_steps \subseteq 1..k
            /\ \A j \in 1..Len(logs) : logs[j].step <= k
            /\ \A j \in 1..Len(delivered) : delivered[j].step <= k

C19_Witness ==
    /\ pc = "done"
    /\ Len(plan) = 2
    /\ worker_calls = <<MAX_RETRIES_PER_STEP>>
    /\ ExhaustionsIn(delivered, 0) = 1
    /\ db_calls > 0

\* C20 as stated: a finished run in which a step exhausted its retries has
\* delivered a final_result event after the exhaustion error event.
C20_Original ==
    \A k \in StepIndexes :
        (pc = "done" /\ ExhaustionsIn(logs, k) > 0) =>
            \E a, b \in 1..Len(delivered) :
                a < b /\ NamesStep(delivered[a], k) /\ delivered[b].type = "final_result"

\* C20 as amended: when the step at index k exhausted its retries, the
\* results kept are those of the k steps before it and the synthesizer runs
\* on them, with a model call unless there are none; the exhaustion error
\* event is delivered and followed by a final_result event, or by the
\* controller's error event when the synthesis model call raised.
C20_Amended ==
    \A k \in StepIndexes :
        ExhaustionsIn(logs, k) > 0 =>
            /\ DOMAIN executed_steps = 1..k
            /\ pc = "done" =>
                 /\ node_trace = ManagerOrder
                 /\ synth_calls = (IF k = 0 THEN 0 ELSE 1)
                 /\ \E a \in 1..(Len(delivered) - 1) : NamesStep(delivered[a], k)
                 /\ IF raised
                    THEN k > 0 /\ IsCriticalError(Last(delivered))
                    ELSE /\ Last(delivered).type = "final_result"
                         /\ (k = 0) = (Last(delivered).content = <<Apology>>)

C20_Witness ==
    /\ pc = "done"
    /\ ~raised
    /\ DOMAIN executed_steps = {1}
    /\ ExhaustionsIn(delivered, 1) = 1
    /\ Last(delivered).type = "final_result"

----------------------------------------------------------------------------
(* Properties of synthesizer_node *)

SynthesizerRan == Len(node_trace) = Len(ManagerOrder)

\* C21: the synthesizer answers with the apology text and without a model
\* call exactly when no step has succeeded, and with exactly one model call
\* otherwise; a finished run whose first step exhausted its retries ends
\* with a final_result event whose content is the apology text.
C21_Apology ==
    /\ ~SynthesizerRan => synth_calls = 0
    /\ SynthesizerRan =>
         /\ synth_calls = (IF DOMAIN executed_steps = {} THEN 0 ELSE 1)
         /\ (DOMAIN executed_steps = {}) = (final_response = Apology)
    /\ (pc = "done" /\ ExhaustionsIn(logs, 0) > 0) =>
         Last(delivered) = Event("final_result", NoStep, <<Apology>>)

C21_Witness ==
    /\ pc = "done"
    /\ Len(plan) = 1
    /\ ExhaustionsIn(delivered, 0) = 1
    /\ synth_calls = 0
    /\ Last(delivered).content = <<Apology>>

\* The synthesizer's model call has raised.
SynthesisFailed == exc # None /\ synth_calls > 0

\* C22: the synthesizer's model call is made at most once; when it raises,
\* no final_result event is delivered and the finished run has delivered the
\* plan event, the orchestrator's events and then one error event of the
\* controller carrying the exception's text.
C22_SynthesisError ==
    /\ synth_calls <= 1
    /\ SynthesisFailed =>
         /\ pc \in {"exception", "done"}
         /\ Count(delivered, "final_result") = 0
         /\ final_response = None
         /\ pc = "done" =>
              /\ raised
              /\ delivered = <<Event("plan", NoStep, plan)>> \o KeepFirst(logs)
                     \o <<Event("error", NoStep, << <<CriticalPrefix>> \o exc >>)>>

C22_Witness ==
    /\ pc = "done"
    /\ SynthesisFailed
    /\ Len(plan) = 2
    /\ DOMAIN executed_steps = {1, 2}
    /\ Last(delivered).type = "error"

----------------------------------------------------------------------------
(* Properties of the attempts of a step *)

\* The number of events of a type that carry the step index k.
CountOf(events, type, k) ==
    Cardinality({ j \in 1..Len(events) : events[j].type = type /\ events[j].step = k })

\* The step at index k has succeeded, and its attempts are over.
Succeeded(k) == Finished(k) /\ (k + 1) \in DOMAIN executed_steps

\* C24: a step that succeeds after fewer than MAX_RETRIES_PER_STEP failed
\* attempts does not end the run: every query of it that was rejected or
\* failed has given a tool_error event, no error event names it as failed,
\* and the next plan step, if there is one, is started.
C24_Recovery ==
    \A k \in StepIndexes :
        Succeeded(k) =>
            /\ CountOf(logs, "tool_error", k) + CountOf(logs, "error", k)
                  < MAX_RETRIES_PER_STEP
            /\ CountOf(logs, "sql_query", k)
                  = CountOf(logs, "tool_error", k) + CountOf(logs, "tool_result", k)
            /\ ExhaustionsIn(logs, k) = 0
            /\ ExhaustionsIn(delivered, k) = 0
            /\ k + 1 < Len(plan) => (Started(k + 1) \/ (pc = "step" /\ i = k + 1))

C24_Witness ==
    /\ pc = "done"
    /\ DOMAIN executed_steps = {1, 2}
    /\ CountOf(logs, "tool_error", 0) = 2
    /\ \E j \in 1..Len(delivered) :
         delivered[j] = Event("tool_error", 0, <<SecurityError>>)
    /\ \E j \in 1..Len(delivered) :
         delivered[j] = Event("tool_error", 0, << <<"no such table">> >>)

\* The step index of an event is that of a step.
OfStep(e) == e.step # NoStep

\* The events that carry a step index do so in increasing order.
StepsInOrder(events) ==
    \A a, b \in 1..Len(events) :
        (a < b /\ OfStep(events[a]) /\ OfStep(events[b])) =>
            events[a].step <= events[b].step

\* C26: the step_start events carry the indexes 0, 1, 2, ... in this order
\* and without gap, each with its plan step; a step is started only when
\* the step before it has succeeded, and every event of a step comes before
\* every event of a later step; unless a step failed, every step is started.
C26_PlanOrder ==
    /\ Len(worker_calls) <= Len(plan)
    /\ Len(SelectSeq(logs, LAMBDA e : e.type = "step_start")) = Len(worker_calls)
    /\ \A k \in StepIndexes :
         Started(k) =>
            /\ SelectSeq(logs, LAMBDA e : e.type = "step_start")[k + 1]
                  = Event("step_start", k, <<plan[k + 1]>>)
            /\ k > 0 => Succeeded(k - 1)
    /\ pc \in {"attempt", "tools", "agent"} => i = Len(worker_calls) - 1
    /\ StepsInOrder(logs)
    /\ StepsInOrder(delivered)
    /\ (SynthesizerRan /\ \A k \in StepIndexes : ExhaustionsIn(logs, k) = 0) =>
         /\ Len(worker_calls) = Len(plan)
         /\ \A k \in StepIndexes : CountOf(delivered, "step_start", k) = 1

C26_Witness ==
    /\ pc = "done"
    /\ worker_calls = <<2, 2>>
    /\ DOMAIN executed_steps = {1, 2}
    /\ CountOf(delivered, "step_start", 1) = 1

RowCount(rows) == << <<"Success, ", ToString(Len(rows)), " rows found.">> >>

\* C27: when the query of an attempt of step i succeeds, the sql_query event
\* of the attempt is followed by a tool_result event with the number of
\* rows, the rows (none, too) are stored under the key of position i next
\* to what the earlier steps stored, and no further model call or query is
\* made for step i.
C27_Success ==
    /\ [][(pc = "tools" /\ sql_result'.success) =>
            /\ Last(logs) = Event("sql_query", i, <<tool_call>>)
            /\ logs' = Append(logs, Event("tool_result", i, RowCount(sql_result'.data)))
            /\ DOMAIN executed_steps' = DOMAIN executed_steps \cup {i + 1}
            /\ executed_steps'[i + 1] =
                  [description |-> plan[i + 1], data |-> sql_result'.data]
            /\ accumulated_data'[i + 1] = sql_result'.data
            /\ \A k \in DOMAIN executed_steps \ {i + 1} :
                  /\ executed_steps'[k] = executed_steps[k]
                  /\ accumulated_data'[k] = accumulated_data[k]]_vars
    /\ [][((i + 1) \in DOMAIN executed_steps /\ i' = i) =>
            (worker_calls' = worker_calls /\ db_calls' = db_calls /\ logs' = logs)]_vars
    /\ [](\A k \in StepIndexes :
            (k + 1) \in DOMAIN executed_steps => CountOf(logs, "tool_result", k) = 1)

C27_Witness ==
    /\ pc = "done"
    /\ DOMAIN executed_steps = {1}
    /\ executed_steps[1].data = <<>>
    /\ accumulated_data[1] = <<>>
    /\ \E j \in 1..(Len(delivered) - 1) :
         /\ delivered[j].type = "sql_query" /\ delivered[j].step = 0
         /\ delivered[j + 1] = Event("tool_result", 0, RowCount(<<>>))

IsErrorOf(e, k) == e.step = k /\ e.type \in {"tool_error", "error"}

\* The text of the last error the step at index k has recorded in the log,
\* None when it has recorded none.
RECURSIVE LastErrorOf(_, _)
LastErrorOf(events, k) ==
    IF events = <<>> THEN None
    ELSE IF IsErrorOf(Last(events), k) THEN Last(events).content[1]
    ELSE LastErrorOf(SubSeq(events, 1, Len(events) - 1), k)

NoToolCall(k) == CountOf(logs, "sql_query", k) = 0 /\ CountOf(logs, "error", k) = 0

\* C30: an attempt in which the model answers without tool call uses up one
\* attempt and runs no query; a step that never made a tool call has failed
\* after exactly MAX_RETRIES_PER_STEP model calls, with no entry in the log
\* but its step_start and the error naming it.
C30_NoToolCall ==
    /\ [][(pc = "attempt" /\ messages'[2] \in {"ai_text", "ai_error"}) =>
            /\ db_calls' = db_calls /\ sql_result' = sql_result
            /\ worker_calls'[i + 1] = worker_calls[i + 1] + 1
            /\ step_error_history' = step_error_history
            /\ IF attempt + 1 < MAX_RETRIES_PER_STEP
               THEN pc' = "attempt" /\ attempt' = attempt + 1 /\ i' = i /\ logs' = logs
               ELSE pc' = "exec_end" /\ ExhaustionsIn(logs', i) = 1]_vars
    /\ [](\A k \in StepIndexes :
            /\ Started(k) => worker_calls[k + 1] <= MAX_RETRIES_PER_STEP
            /\ (Finished(k) /\ NoToolCall(k)) =>
                 /\ worker_calls[k + 1] = MAX_RETRIES_PER_STEP
                 /\ Exhausted(k)
                 /\ ExhaustionsIn(logs, k) = 1
                 /\ CountOf(logs, "tool_error", k) = 0
                 /\ CountOf(logs, "tool_result", k) = 0
                 /\ k = 0 => (db_calls = 0 /\ sql_result = NoResult))

C30_Witness ==
    /\ pc = "done"
    /\ worker_calls = <<MAX_RETRIES_PER_STEP>>
    /\ Len(logs) = 3
    /\ NoToolCall(0)
    /\ db_calls = 0
    /\ ExhaustionsIn(delivered, 0) = 1

----------------------------------------------------------------------------
(* Properties of repeated calls of execute_sql *)

\* The verdict on a text: the reason of its rejection, or None.
Verdict(q, release) ==
    IF q = <<>> THEN EmptyError
    ELSE IF ContainsBlockedWord(q) THEN SecurityError
    ELSE IF ParseRaises(q)
         THEN <<ParseErrorPrefix, "Maximum grouping depth exceeded">>
    ELSE IF IsBlank(q)
         THEN IF release = "keeps_blank"
              THEN <<TypeErrorPrefix, "UNKNOWN", "' tespit edildi.">>
              ELSE <<ParseErrorPrefix, "tuple index out of range">>
    ELSE IF Lower(FirstWord(q)) # "select"
         THEN <<TypeErrorPrefix, "UNKNOWN", "' tespit edildi.">>
    ELSE None

\* C25: the verdict of the checks on a text, and the reason of a rejection,
\* are a function of the text alone (for the installed parser): whatever was
\* validated or executed before, the same text gets the same verdict, and
\* the checks change nothing but the answer of the call.
C25_Deterministic ==
    [][pc = "sql_fn" =>
         /\ IF Verdict(tool_call, sqlparse_release) = None
            THEN pc' = "sql_exec" /\ sql_result' = sql_result
            ELSE /\ pc' = "sql_fn_done"
                 /\ sql_result' = SQLToolOutput(FALSE, <<>>,
                                      Verdict(tool_call, sqlparse_release))
         /\ db_calls' = db_calls /\ connections' = connections
         /\ tool_call' = tool_call /\ sqlparse_release' = sqlparse_release]_vars

C25_Witness ==
    /\ SqlReturned
    /\ attempt = 1
    /\ db_calls = 1
    /\ tool_call = <<"Drop", ";">>
    /\ sql_result = SQLToolOutput(FALSE, <<>>, SecurityError)

----------------------------------------------------------------------------
(* Properties of two interleaved calls *)

IsTracked(e) == ~IsControllerError(e)

OfType(events, type) == SelectSeq(events, LAMBDA e : e.type = type)

\* The controller of the call r has handled the planner's, the executor's
\* and the synthesizer's update.
PlanHandled(r) ==
    r.plan # <<>> /\ ~Unhashable(r.plan)
    /\ r.pc \notin {"init", "planner", "planner_update"}

LogsHandled(r) == r.logs # <<>> /\ r.last_log_count = Len(r.logs)

FinalHandled(r) == r.pc = "done" /\ ~r.raised /\ r.node_trace # <<>>

\* What the call r has delivered and recorded as sent follows from its own
\* plan, its own log and its own answer.
OwnStream(r) ==
    /\ r.sent_logs_tracker =
          { Key(r.delivered[k]) :
              k \in {j \in 1..Len(r.delivered) : IsTracked(r.delivered[j])} }
    /\ OfType(r.delivered, "plan") =
          IF PlanHandled(r) THEN <<Event("plan", NoStep, r.plan)>> ELSE <<>>
    /\ Orchestrated(r.delivered) =
          IF LogsHandled(r) THEN KeepFirst(r.logs) ELSE <<>>
    /\ OfType(r.delivered, "final_result") =
          IF FinalHandled(r)
          THEN <<Event("final_result", NoStep, <<r.final_response>>)>>
          ELSE <<>>
    /\ \A k \in 1..Len(r.delivered) :
          IsCriticalError(r.delivered[k]) =>
              r.delivered[k].content = << <<CriticalPrefix>> \o r.exc >>

\* The locals of the suspended call are those it was suspended with.
Untouched == Switch \/ other' = other

\* C23: of two interleaved calls of analyze_streaming on one AIAnalyst, a
\* step of the running call leaves every local of the suspended call as it
\* was, and each call delivers its own plan, the entries of its own log (each
\* once) and its own answer, and records as sent the keys of its own
\* delivered events only: no event of one call appears in the stream of the
\* other, and an event one call has delivered does not keep the other from
\* delivering an equal one.
C23_Isolation ==
    /\ [](OwnStream(Locals) /\ OwnStream(other))
    /\ [][Untouched]_vars

C23_Witness ==
    /\ pc = "done"
    /\ FinalHandled(Locals)
    /\ other.pc = "tools"
    /\ PlanHandled(other)
    /\ other.plan = plan
    /\ other.delivered = <<delivered[1]>>
    /\ delivered[2] = Event("step_start", 0, other.logs[1].content)

----------------------------------------------------------------------------
(* Properties of the executor's records *)

\* The log has a tool_result entry of the step at index k that counts rows.
ResultLogged(events, k, rows) ==
    \E j \in 1..Len(events) :
        events[j] = [type |-> "tool_result", step |-> k, content |-> RowCount(rows)]

\* C31: in the step loop accumulated_data only grows: a key is added only by
\* the successful tool result of the step it names, no key is removed and
\* the rows under a key stay as first written; the context in the prompt of
\* an attempt of the step at index i holds the rows of exactly the steps
\* before it.
C31_Context ==
    /\ [][/\ DOMAIN accumulated_data \subseteq DOMAIN accumulated_data'
          /\ \A k \in DOMAIN accumulated_data :
                accumulated_data'[k] = accumulated_data[k]
          /\ \A k \in DOMAIN accumulated_data' \ DOMAIN accumulated_data :
                /\ k = i + 1
                /\ pc = "tools" /\ ~step_success /\ step_success'
                /\ Last(logs') = [type |-> "tool_result", step |-> i,
                                   content |-> RowCount(accumulated_data'[k])]]_vars
    /\ [][pc = "attempt" =>
            /\ DOMAIN prompt'.context = 1..i
            /\ \A k \in 1..i : ResultLogged(logs, k - 1, prompt'.context[k])]_vars
    /\ [](\A k \in DOMAIN accumulated_data :
            ResultLogged(logs, k - 1, accumulated_data[k]))

C31_Witness ==
    /\ pc = "tools"
    /\ i = 1
    /\ attempt = 2
    /\ DOMAIN prompt.context = {1}
    /\ DOMAIN accumulated_data = {1}
    /\ Len(step_error_history) = 2

\* execution_node has returned.
ExecutorReturned ==
    Len(node_trace) >= 2
    /\ pc \notin {"step", "attempt", "tools", "agent", "exec_end"}

HandOff == Event("info", NoStep, << <<"Synthesizing final results...">> >>)

\* C32: the log of execution_node has exactly one info entry, the hand-off
\* to synthesis, and it is the last entry, whether every step succeeded or
\* the loop stopped at a step that exhausted its attempts; before the node
\* returns the log has no info entry.
C32_HandOff ==
    /\ ExecutorReturned =>
          /\ Count(logs, "info") = 1
          /\ Last(logs) = HandOff
    /\ ~ExecutorReturned => Count(logs, "info") = 0
    /\ ExecutorForwarded =>
          /\ Count(delivered, "info") = 1
          /\ Last(Orchestrated(delivered)) = HandOff

C32_Witness ==
    /\ pc = "done"
    /\ DOMAIN executed_steps = {1}
    /\ ExhaustionsIn(logs, 1) = 1
    /\ logs[Len(logs) - 1].type = "error"
    /\ Last(logs) = HandOff
    /\ Count(delivered, "info") = 1

\* The log has a tool_result entry of the step at index k.
HasResult(events, k) == CountOf(events, "tool_result", k) > 0

\* C33: at every point of the step loop and after it, executed_steps and
\* accumulated_data have entries for the same positions, with the same rows
\* and the step's description; the positions are 1..k for some k up to the
\* length of the plan; and a position has an entry exactly when its step
\* has had a successful tool result.
C33_Records ==
    /\ DOMAIN executed_steps = DOMAIN accumulated_data
    /\ \E k \in 0..Len(plan) : DOMAIN executed_steps = 1..k
    /\ \A k \in DOMAIN executed_steps :
          /\ executed_steps[k].data = accumulated_data[k]
          /\ executed_steps[k].description = plan[k]
    /\ \A k \in StepIndexes :
          (k + 1) \in DOMAIN executed_steps <=> HasResult(logs, k)
    /\ pc \in {"attempt", "tools", "agent"} =>
          (step_success <=> (i + 1) \in DOMAIN executed_steps)

C33_Witness ==
    /\ pc = "agent"
    /\ i = 1
    /\ attempt = 1
    /\ step_success
    /\ DOMAIN executed_steps = {1, 2}
    /\ executed_steps[2].data = Rows(1)

----------------------------------------------------------------------------
(* Properties of the worker graph *)

\* The messages of the worker graph's state that a node has added.
AgentVisits(msgs) ==
    Cardinality({ k \in 1..Len(msgs) :
                    msgs[k] \in {"ai_done", "ai_error", "ai_text", "ai_tool_call"} })

ToolRuns(msgs) == Cardinality({ k \in 1..Len(msgs) : msgs[k] = "tool" })

\* C34: one run of the worker graph calls the language model once, in its
\* first visit of the agent node, and runs the tools node at most once; in
\* the visit after a tool message the agent node adds its closing message
\* without a model call and the graph ends; no run has more than two visits
\* of the agent node.
C34_WorkerRun ==
    /\ [][pc = "attempt" =>
            /\ worker_calls'[i + 1] = worker_calls[i + 1] + 1
            /\ AgentVisits(messages') = 1 /\ ToolRuns(messages') = 0]_vars
    /\ [][pc = "tools" =>
            /\ worker_calls' = worker_calls
            /\ messages' = <<"human", "ai_tool_call", "tool">>
            /\ pc' = "agent"]_vars
    /\ [][pc = "agent" =>
            /\ worker_calls' = worker_calls
            /\ messages' = <<"human", "ai_tool_call", "tool", "ai_done">>
            /\ pc' \in {"attempt", "step", "exec_end"}
            /\ db_calls' = db_calls]_vars
    /\ [](AgentVisits(messages) <= 2 /\ ToolRuns(messages) <= 1)
    /\ [](pc \in {"tools", "agent"} => worker_calls[i + 1] = attempt + 1)

C34_Witness ==
    /\ pc = "attempt"
    /\ attempt = 1
    /\ worker_calls[i + 1] = 1
    /\ messages = <<"human", "ai_tool_call", "tool", "ai_done">>
    /\ ~sql_result.success

----------------------------------------------------------------------------
(* Properties of the attempts' entries in the log *)

\* The attempt that starts now ends without tool call: the model answered
\* with a text, or its call raised inside worker_node.
Untraced == pc = "attempt" /\ messages'[2] \in {"ai_text", "ai_error"}

ToolCalled == pc = "attempt" /\ messages'[2] = "ai_tool_call"

\* The query of the tool call is appended to the log, and nothing has been
\* validated or run yet.
QueryLogged ==
    /\ logs' = Append(logs, Event("sql_query", i, <<tool_call'>>))
    /\ pc' = "tools"
    /\ db_calls' = db_calls /\ sql_result' = sql_result

MissingArgument == <<"Critical error during step execution: ", "'sql_query'">>

\* Every tool_result and tool_error entry directly follows the sql_query
\* entry of its attempt.
ResultsFollowQueries(events) ==
    \A j \in 1..Len(events) :
        events[j].type \in {"tool_result", "tool_error"} =>
            /\ j > 1
            /\ events[j - 1].type = "sql_query"
            /\ events[j - 1].step = events[j].step

\* C36 as stated: every attempt in which the model made a tool call appends
\* a sql_query entry before the query is validated.
C36_Original == [][ToolCalled => QueryLogged]_vars

\* C36: an attempt in which the model made a tool call that has the
\* sql_query argument appends a sql_query entry with the query before it is
\* validated or run, also when the query is then rejected or fails; a tool
\* call without that argument appends an error entry of the step and no
\* sql_query entry, and the tools node does not run. Every tool_result and
\* tool_error entry directly follows the sql_query entry of its attempt.
C36_Amended ==
    /\ [][ToolCalled =>
            \/ QueryLogged
            \/ /\ Len(logs') > Len(logs)
               /\ SubSeq(logs', 1, Len(logs) + 1)
                     = Append(logs, Event("error", i, <<MissingArgument>>))
               /\ CountOf(logs', "sql_query", i) = CountOf(logs, "sql_query", i)
               /\ pc' # "tools"
               /\ db_calls' = db_calls /\ sql_result' = sql_result]_vars
    /\ [][pc = "tools" =>
            /\ Last(logs) = Event("sql_query", i, <<tool_call>>)
            /\ Len(logs') = Len(logs) + 1
            /\ SubSeq(logs', 1, Len(logs)) = logs
            /\ Last(logs').type = IF sql_result'.success THEN "tool_result"
                                                          ELSE "tool_error"
            /\ Last(logs').step = i]_vars
    /\ [](ResultsFollowQueries(logs))

C36_Witness ==
    /\ pc = "attempt"
    /\ attempt = 2
    /\ logs = << Event("step_start", 0, <<plan[1]>>),
                 Event("error", 0, <<MissingArgument>>),
                 Event("sql_query", 0, << <<"DROP", " ", "x">> >>),
                 Event("tool_error", 0, <<SecurityError>>) >>
    /\ db_calls = 0

----------------------------------------------------------------------------
(* Properties of the delivery of the executor's log *)

\* C37: while execution_node runs its step loop nothing of its log is
\* delivered; the entries of the log are delivered in one step of the
\* controller, after the node has appended the hand-off entry and returned,
\* and none is delivered before or after that step.
C37_OneBatch ==
    /\ [](pc \in {"step", "attempt", "tools", "agent", "exec_end", "executor_update"} =>
            Orchestrated(delivered) = <<>>)
    /\ [][Orchestrated(delivered') # Orchestrated(delivered) =>
            /\ pc = "executor_update"
            /\ Last(logs) = HandOff
            /\ logs' = logs
            /\ Orchestrated(delivered) = <<>>
            /\ Orchestrated(delivered') = KeepFirst(logs)
            /\ delivered' = delivered \o KeepFirst(logs)]_vars

C37_Witness ==
    /\ pc = "exec_end"
    /\ i = 1
    /\ attempt = 2
    /\ Len(logs) > 6
    /\ Types(delivered) = <<"plan">>

====
